---- MODULE Spec2Model ----
(***************************************************************************)
(* The two bot scripts of the repository as state machines.                *)
(*                                                                         *)
(*   main.py           InstagramTelegramBot: per-user sessions with a      *)
(*                     300 s timeout, no rate limiter.                     *)
(*   instagram_bot.py  per-user sliding-window rate limiter, pending URLs  *)
(*                     kept in context.user_data, no timeout.              *)
(*                                                                         *)
(* python-telegram-bot dispatches updates one at a time (neither script    *)
(* enables concurrent_updates), so a handler is one atomic action; where   *)
(* a download is followed from its start to its end, the updates that      *)
(* arrive meanwhile wait in a queue.  Time is in whole seconds.  The       *)
(* collaborators (yt-dlp, the Telegram transport, os.remove) are inputs    *)
(* of the actions: what the fetch returned, whether the delivery raised    *)
(* and whether the downloaded file can be removed.                         *)
(***************************************************************************)
EXTENDS Integers, Sequences, FiniteSets, TLC

VARIABLES
    program,        \* which script is running: "main" or "instagram_bot"
    now,            \* the clock: time.time() / datetime.now()
    user_sessions,  \* main.py: bot.user_sessions, a dict as a set of entries
    prompts,        \* main.py: the user ids whose keyboard has been shown
    keyboards,      \* instagram_bot.py: the content ids whose keyboard has been shown
    user_requests,  \* instagram_bot.py: user_requests, user id -> timestamps
    last_cleanup,   \* instagram_bot.py: last_cleanup
    user_data,      \* instagram_bot.py: context.user_data, a set of entries
    instagram_client, \* instagram_bot.py: instagram_client, "none" or "client"
    files,          \* the files in the download directory
    admitted,       \* history: admissions of the trailing hour, per user
    inbox,          \* main.py: updates received and not yet dispatched
    inflight,       \* main.py: the callback whose download is running
    links,          \* history: the links whose keyboard was shown, per user
    last            \* what the last handled event did (observation)

vars == <<program, now, user_sessions, prompts, keyboards, user_requests,
          last_cleanup, user_data, instagram_client, files, admitted,
          inbox, inflight, links, last>>

mainVars == <<user_sessions, prompts>>
flightVars == <<inbox, inflight, links>>
botVars == <<keyboards, user_requests, last_cleanup, user_data,
            instagram_client, admitted>>

----------------------------------------------------------------------------
(* Program constants *)

session_timeout == 300
MAX_REQUESTS_PER_HOUR == 30
ONE_HOUR == 3600
FIVE_MINUTES == 300
DESCRIPTION_LIMIT == 200
CAPTION_LIMIT == 1024

(* Bounds of the model *)

Slack == 1          \* seconds explored after the start
MaxLinks == 3       \* tokens of a text handed to the classifiers alone
MaxCalls == 2       \* requests of one user kept when the sweep is studied
MaxQueued == 1      \* updates waiting while a handler runs
MaxField == 1100    \* longest uploader, title or description of a fetch

Users == {1, 2}     \* chat users of main.py
BotUsers == {1}     \* chat users of instagram_bot.py

(* The instants at which events are observed. *)
MainInstants == (0 .. Slack) \cup {session_timeout}
LimiterInstants == {0, Slack + 1} \cup (ONE_HOUR .. (ONE_HOUR + Slack))
BotInstants == {0, ONE_HOUR}

----------------------------------------------------------------------------
(* Text messages.  A text is a sequence of space-separated tokens:         *)
(*   word     plain text without '/', '?', '#'                              *)
(*   bare     "instagram.com/<id>" without a scheme                         *)
(*   other    "https://instagram.com/explore/tags/<id>"                     *)
(*   profile  "https://instagram.com/<id>"                                  *)
(*   reel     "https://instagram.com/reel/<id>"                             *)
(*   post     "https://instagram.com/p/<id>"                                *)
(*   story    "https://instagram.com/stories/<id>/1"                        *)

Tok(k, i) == [kind |-> k, id |-> i]

Tokens ==
    { Tok("word", "w"), Tok("bare", "a"), Tok("other", "a"),
      Tok("profile", "a"), Tok("reel", "a"), Tok("post", "a"),
      Tok("story", "a") }

Ids == {"a"}

NoMatch == [url |-> Tok("none", ""), url_type |-> "none"]

Min(S) == CHOOSE x \in S : \A y \in S : x <= y

\* the leftmost token of a kind, 0 when there is none
FirstOf(text, k) ==
    LET I == { i \in 1 .. Len(text) : text[i].kind = k }
    IN  IF I = {} THEN 0 ELSE Min(I)

\* main.py: the profile pattern ends in '$' and its handle group [^/?#]+
\* also eats spaces and plain words, so it matches a profile URL followed
\* by nothing but plain words.
ProfileAtEnd(text) ==
    LET I == { i \in 1 .. Len(text) :
                 /\ text[i].kind = "profile"
                 /\ \A j \in (i + 1) .. Len(text) : text[j].kind = "word" }
    IN  IF I = {} THEN 0 ELSE Min(I)

Found(text, i, k) == [url |-> text[i], url_type |-> k]

extract_instagram_info_main_reel_first(text) ==
    IF ProfileAtEnd(text) # 0 THEN Found(text, ProfileAtEnd(text), "profile")
    ELSE IF FirstOf(text, "reel") # 0 THEN Found(text, FirstOf(text, "reel"), "reel")
    ELSE IF FirstOf(text, "post") # 0 THEN Found(text, FirstOf(text, "post"), "post")
    ELSE IF FirstOf(text, "story") # 0 THEN Found(text, FirstOf(text, "story"), "story")
    ELSE NoMatch

\* main.py InstagramTelegramBot.extract_instagram_info: the patterns are
\* tried in dict order profile, post, reel, story, each with re.search over
\* the whole text.
extract_instagram_info_main(text) ==
    IF ProfileAtEnd(text) # 0 THEN Found(text, ProfileAtEnd(text), "profile")
    ELSE IF FirstOf(text, "post") # 0 THEN Found(text, FirstOf(text, "post"), "post")
    ELSE IF FirstOf(text, "reel") # 0 THEN Found(text, FirstOf(text, "reel"), "reel")
    ELSE IF FirstOf(text, "story") # 0 THEN Found(text, FirstOf(text, "story"), "story")
    ELSE NoMatch

----------------------------------------------------------------------------
(* The observation of one handled event. *)

Quiet ==
    [ op |-> "init", user |-> 0, owner |-> 0, key |-> "", action |-> "",
      gate |-> "none", classified |-> FALSE, fetches |-> 0,
      raised |-> FALSE, fault |-> "none", swept |-> FALSE, had |-> FALSE,
      response |-> "none",
      kind |-> "none", buttons |-> {}, during |-> FALSE, pings |-> 0,
      shown |-> Tok("none", ""),
      fetched |-> Tok("none", "") ]

\* the pings a keep-alive loop has sent in a row, counted modulo 2: the
\* loop never ends
Pings(l, op) == IF l.op = op THEN 1 - l.pings ELSE 0

----------------------------------------------------------------------------
(* main.py: the session store.  The dict user_sessions is the set of its   *)
(* entries [user, url, url_type, timestamp].                               *)

Entry(u, url, url_type, t) ==
    [user |-> u, url |-> url, url_type |-> url_type, timestamp |-> t]

HasSession(S, u) == \E e \in S : e.user = u

SessionOf(S, u) == CHOOSE e \in S : e.user = u

\* self.user_sessions[user_id] = {...}: a dict assignment replaces the key
create_session_keeps_old(S, u, url, url_type, t) ==
    S \cup {Entry(u, url, url_type, t)}

create_session(S, u, url, url_type, t) ==
    { e \in S : e.user # u } \cup {Entry(u, url, url_type, t)}

\* self.user_sessions.pop(user_id, None)
clear_session_del(S, u) ==
    [store |-> { e \in S : e.user # u }, raised |-> ~HasSession(S, u)]

clear_session(S, u) ==
    [store |-> { e \in S : e.user # u }, raised |-> FALSE]

is_session_valid_inclusive(S, u, t) ==
    /\ HasSession(S, u)
    /\ (t - SessionOf(S, u).timestamp) <= session_timeout

is_session_valid(S, u, t) ==
    /\ HasSession(S, u)
    /\ (t - SessionOf(S, u).timestamp) < session_timeout

----------------------------------------------------------------------------
(* main.py: the handlers.  fetch is what download_with_ytdlp returns       *)
(* ("file": a path that exists, "none": None with a status message);       *)
(* deliver is whether the transport call that hands over the result        *)
(* succeeds ("ok") or raises ("raise").                                    *)

Outcomes == { <<"file", "ok">>, <<"file", "raise">>, <<"none", "ok">> }

\* main.py's download_with_ytdlp also catches what yt-dlp raises
MainOutcomes == Outcomes \cup { <<"raise", "ok">> }

\* the download left a file that os.remove will refuse to delete
StuckOutcomes == { <<"stuck", "ok">>, <<"stuck", "raise">> }

\* the collaborator that failed while a download was being made and sent
Fault(fetch, deliver) ==
    IF fetch = "raise" THEN "fetcher"
    ELSE IF fetch \in {"file", "stuck"} /\ deliver = "raise" THEN "transport"
    ELSE "none"
NoFetch == { <<"none", "ok">>, <<"none", "raise">> }
NoCall == { <<"none", "ok">> }
Actions == {"video", "audio", "cancel"}

\* the messages the handlers are driven with: one token each
Messages == [1 .. 1 -> Tokens]

\* a file of the download directory: its name is a prefix and the second
\* at which the download started; locked tells that os.remove raises on it
File(prefix, t) == [prefix |-> prefix, stamp |-> t, locked |-> FALSE]

NoFile == [prefix |-> "none", stamp |-> 0, locked |-> FALSE]

Locked(f) == [f EXCEPT !.locked = TRUE]

\* what fetch leaves at a path
Left(path, fetch) == IF fetch = "stuck" THEN Locked(path) ELSE path

safe_delete_file_keeps(F, filepath) == [files |-> F, raised |-> FALSE]

safe_delete_file_escalates(F, filepath) ==
    [ files |-> IF filepath.locked THEN F ELSE F \ {filepath},
      raised |-> filepath.locked ]

\* safe_delete_file: os.remove when the path exists; what os.remove raises
\* is caught and logged
safe_delete_file(F, filepath) ==
    [ files |-> IF filepath.locked THEN F ELSE F \ {filepath},
      raised |-> FALSE ]

\* download_with_ytdlp: the file is media_<second>.* or audio_<second>.*;
\* the path is returned when the download left a file, None otherwise
download_with_ytdlp(F, t, audio_only, fetch) ==
    LET path == Left(File(IF audio_only THEN "audio" ELSE "media", t), fetch)
    IN  IF fetch \in {"file", "stuck"}
        THEN [files |-> F \cup {path}, filepath |-> path]
        ELSE [files |-> F, filepath |-> NoFile]

handle_profile_download_main_retries(F, t, fetch, deliver) ==
    LET d == download_with_ytdlp(F, t, FALSE, fetch)
    IN  IF d.filepath # NoFile
        THEN [ response |-> IF deliver = "ok" THEN "photo" ELSE "error",
               fetches |-> 1,
               files |-> safe_delete_file(d.files, d.filepath).files,
               raised |-> safe_delete_file(d.files, d.filepath).raised ]
        ELSE [ response |-> "download_failed", fetches |-> 2,
               files |-> d.files, raised |-> FALSE ]

\* handle_profile_download: one download, then the photo or a failure text;
\* the finally block deletes the file when a path came back.
handle_profile_download_main(F, t, fetch, deliver) ==
    LET d == download_with_ytdlp(F, t, FALSE, fetch)
    IN  IF d.filepath # NoFile
        THEN [ response |-> IF deliver = "ok" THEN "photo" ELSE "error",
               fetches |-> 1,
               files |-> safe_delete_file(d.files, d.filepath).files,
               raised |-> safe_delete_file(d.files, d.filepath).raised ]
        ELSE [ response |-> "download_failed", fetches |-> 1,
               files |-> d.files, raised |-> FALSE ]

handle_media_choice_without_session(S, u, url, url_type, t, deliver) ==
    [ user_sessions |-> S,
      response |-> IF deliver = "ok" THEN "choice" ELSE "error",
      prompt |-> (deliver = "ok"), created |-> FALSE,
      buttons |-> IF deliver = "ok" THEN Actions ELSE {} ]

\* handle_media_choice: the session is created first, then the keyboard
\* (Video, Audio, Cancel) is shown; when showing it raises, the except
\* branch reports the error.
handle_media_choice(S, u, url, url_type, t, deliver) ==
    [ user_sessions |-> create_session(S, u, url, url_type, t),
      response |-> IF deliver = "ok" THEN "choice" ELSE "error",
      prompt |-> (deliver = "ok"), created |-> TRUE,
      buttons |-> IF deliver = "ok" THEN Actions ELSE {} ]

handle_instagram_message_story_as_reel(S, F, u, text, t, fetch, deliver) ==
    LET info == extract_instagram_info_main(text)
        base == [ user_sessions |-> S, files |-> F,
                  response |-> "invalid_link",
                  gate |-> "none", classified |-> TRUE, fetches |-> 0,
                  prompt |-> FALSE, created |-> FALSE,
                  kind |-> info.url_type, buttons |-> {},
                  raised |-> FALSE ]
    IN  IF info = NoMatch THEN base
        ELSE IF info.url_type = "profile"
        THEN LET r == handle_profile_download_main(F, t, fetch, deliver)
             IN  [base EXCEPT !.response = r.response,
                              !.fetches = r.fetches, !.files = r.files,
                              !.raised = r.raised]
        ELSE LET r == handle_media_choice(S, u, info.url, info.url_type, t, deliver)
             IN  [base EXCEPT !.user_sessions = r.user_sessions,
                              !.response = r.response, !.prompt = r.prompt,
                              !.created = r.created, !.buttons = r.buttons]

handle_instagram_message_profile_clears(S, F, u, text, t, fetch, deliver) ==
    LET info == extract_instagram_info_main(text)
        base == [ user_sessions |-> S, files |-> F,
                  response |-> "invalid_link",
                  gate |-> "none", classified |-> TRUE, fetches |-> 0,
                  prompt |-> FALSE, created |-> FALSE,
                  kind |-> info.url_type, buttons |-> {},
                  raised |-> FALSE ]
    IN  IF info = NoMatch THEN base
        ELSE IF info.url_type = "profile"
        THEN LET r == handle_profile_download_main(F, t, fetch, deliver)
             IN  [base EXCEPT !.user_sessions = clear_session(S, u).store,
                              !.response = r.response,
                              !.fetches = r.fetches, !.files = r.files,
                              !.raised = r.raised]
        ELSE IF info.url_type \in {"reel", "post"}
        THEN LET r == handle_media_choice(S, u, info.url, info.url_type, t, deliver)
             IN  [base EXCEPT !.user_sessions = r.user_sessions,
                              !.response = r.response, !.prompt = r.prompt,
                              !.created = r.created, !.buttons = r.buttons]
        ELSE [base EXCEPT !.response = "unsupported"]

\* handle_instagram_message: no rate limiter is consulted; the text is
\* classified first.
handle_instagram_message(S, F, u, text, t, fetch, deliver) ==
    LET info == extract_instagram_info_main(text)
        base == [ user_sessions |-> S, files |-> F,
                  response |-> "invalid_link",
                  gate |-> "none", classified |-> TRUE, fetches |-> 0,
                  prompt |-> FALSE, created |-> FALSE,
                  kind |-> info.url_type, buttons |-> {},
                  raised |-> FALSE ]
    IN  IF info = NoMatch THEN base
        ELSE IF info.url_type = "profile"
        THEN LET r == handle_profile_download_main(F, t, fetch, deliver)
             IN  [base EXCEPT !.response = r.response,
                              !.fetches = r.fetches, !.files = r.files,
                              !.raised = r.raised]
        ELSE IF info.url_type \in {"reel", "post"}
        THEN LET r == handle_media_choice(S, u, info.url, info.url_type, t, deliver)
             IN  [base EXCEPT !.user_sessions = r.user_sessions,
                              !.response = r.response, !.prompt = r.prompt,
                              !.created = r.created, !.buttons = r.buttons]
        ELSE [base EXCEPT !.response = "unsupported"]

download_and_send_lets_through(S, F, u, url, action, t, fetch, deliver) ==
    LET d == download_with_ytdlp(F, t, action = "audio", fetch)
    IN  IF d.filepath # NoFile
        THEN [ user_sessions |-> clear_session(S, u).store,
               files |-> safe_delete_file(d.files, d.filepath).files,
               response |-> IF deliver = "ok" THEN action ELSE "none",
               fetches |-> 1, fetched |-> url,
               raised |-> (deliver = "raise") ]
        ELSE [ user_sessions |-> clear_session(S, u).store,
               files |-> d.files,
               response |-> "download_failed", fetches |-> 1,
               fetched |-> url, raised |-> FALSE ]

download_and_send_keeps_on_failure(S, F, u, url, action, t, fetch, deliver) ==
    LET d == download_with_ytdlp(F, t, action = "audio", fetch)
    IN  IF d.filepath # NoFile
        THEN [ user_sessions |-> clear_session(S, u).store,
               files |-> safe_delete_file(d.files, d.filepath).files,
               response |-> IF deliver = "ok" THEN action ELSE "error",
               fetches |-> 1, fetched |-> url,
               raised |-> safe_delete_file(d.files, d.filepath).raised ]
        ELSE [ user_sessions |-> S, files |-> d.files,
               response |-> "download_failed", fetches |-> 1,
               fetched |-> url, raised |-> FALSE ]

\* handle_button_callback from "Handle download" on: one download of the
\* session's URL, the video or audio or a failure text, and the finally
\* block that clears the session and deletes the file when a path came back
download_and_send(S, F, u, url, action, t, fetch, deliver) ==
    LET d == download_with_ytdlp(F, t, action = "audio", fetch)
    IN  IF d.filepath # NoFile
        THEN [ user_sessions |-> clear_session(S, u).store,
               files |-> safe_delete_file(d.files, d.filepath).files,
               response |-> IF deliver = "ok" THEN action ELSE "error",
               fetches |-> 1, fetched |-> url,
               raised |-> safe_delete_file(d.files, d.filepath).raised ]
        ELSE [ user_sessions |-> clear_session(S, u).store,
               files |-> d.files,
               response |-> "download_failed", fetches |-> 1,
               fetched |-> url, raised |-> FALSE ]

\* what handle_button_callback leaves when it returns before the download
Returned(S, F, response) ==
    [ user_sessions |-> S, files |-> F, response |-> response,
      fetches |-> 0, fetched |-> Tok("none", ""), raised |-> FALSE ]

handle_button_callback_drops_expired(S, F, u, action, owner, t, fetch, deliver) ==
    IF ~is_session_valid(S, u, t)
    THEN Returned(clear_session(S, u).store, F, "session_expired")
    ELSE IF u # owner THEN Returned(S, F, "not_for_you")
    ELSE IF action = "cancel"
    THEN Returned(clear_session(S, u).store, F, "cancelled")
    ELSE download_and_send(S, F, u, SessionOf(S, u).url, action, t,
                           fetch, deliver)

handle_button_callback_no_expiry(S, F, u, action, owner, t, fetch, deliver) ==
    IF ~HasSession(S, u) THEN Returned(S, F, "session_expired")
    ELSE IF u # owner THEN Returned(S, F, "not_for_you")
    ELSE IF action = "cancel"
    THEN Returned(clear_session(S, u).store, F, "cancelled")
    ELSE download_and_send(S, F, u, SessionOf(S, u).url, action, t,
                           fetch, deliver)

handle_button_callback_clears_on_mismatch(S, F, u, action, owner, t, fetch, deliver) ==
    IF ~is_session_valid(S, u, t) THEN Returned(S, F, "session_expired")
    ELSE IF u # owner
    THEN Returned(clear_session(S, u).store, F, "not_for_you")
    ELSE IF action = "cancel"
    THEN Returned(clear_session(S, u).store, F, "cancelled")
    ELSE download_and_send(S, F, u, SessionOf(S, u).url, action, t,
                           fetch, deliver)

handle_button_callback_cancel_keeps(S, F, u, action, owner, t, fetch, deliver) ==
    IF ~is_session_valid(S, u, t) THEN Returned(S, F, "session_expired")
    ELSE IF u # owner THEN Returned(S, F, "not_for_you")
    ELSE IF action = "cancel" THEN Returned(S, F, "cancelled")
    ELSE download_and_send(S, F, u, SessionOf(S, u).url, action, t,
                           fetch, deliver)

\* handle_button_callback: the validity of the presser's own session is
\* checked first, then the id embedded in the button, then the action.
handle_button_callback(S, F, u, action, owner, t, fetch, deliver) ==
    IF ~is_session_valid(S, u, t) THEN Returned(S, F, "session_expired")
    ELSE IF u # owner THEN Returned(S, F, "not_for_you")
    ELSE IF action = "cancel"
    THEN Returned(clear_session(S, u).store, F, "cancelled")
    ELSE download_and_send(S, F, u, SessionOf(S, u).url, action, t,
                           fetch, deliver)

----------------------------------------------------------------------------
(* main.py: the actions *)

MainTick ==
    /\ program = "main"
    /\ \E t \in MainInstants : t > now /\ now' = t
    /\ last' = [Quiet EXCEPT !.op = "tick"]
    /\ UNCHANGED <<flightVars, program, mainVars, botVars, files>>

MainText(u, text, fetch, deliver) ==
    LET r == handle_instagram_message(user_sessions, files, u, text, now,
                                      fetch, deliver)
    IN  /\ program = "main"
        /\ user_sessions' = r.user_sessions
        /\ files' = r.files
        /\ prompts' = IF r.prompt THEN prompts \cup {u} ELSE prompts
        /\ last' = [Quiet EXCEPT !.op = "text", !.user = u,
                                 !.gate = r.gate,
                                 !.classified = r.classified,
                                 !.fetches = r.fetches,
                                 !.raised = r.raised,
                                 !.fault = IF r.fetches > 0
                                           THEN Fault(fetch, deliver)
                                           ELSE "none",
                                 !.had = r.created /\ HasSession(user_sessions, u),
                                 !.response = r.response,
                                 !.kind = r.kind,
                                 !.buttons = r.buttons]
        /\ UNCHANGED <<flightVars, program, now, botVars>>

\* a press of a button of a keyboard that has been shown; callback_data is
\* "<action>_<owner>" and any user who sees the message can press it
MainCallback(u, action, owner, fetch, deliver) ==
    LET r == handle_button_callback(user_sessions, files, u, action, owner,
                                    now, fetch, deliver)
    IN  /\ program = "main"
        /\ owner \in prompts
        /\ user_sessions' = r.user_sessions
        /\ files' = r.files
        /\ last' = [Quiet EXCEPT !.op = "callback", !.user = u,
                                 !.owner = owner, !.action = action,
                                 !.fetches = r.fetches,
                                 !.raised = r.raised,
                                 !.fault = IF r.fetches > 0
                                           THEN Fault(fetch, deliver)
                                           ELSE "none",
                                 !.response = r.response,
                                 !.fetched = r.fetched]
        /\ UNCHANGED <<flightVars, program, now, prompts, botVars>>

\* the collaborators' outcomes a handler run can meet
MainTextOutcomes(text) ==
    LET k == extract_instagram_info_main(text).url_type
    IN  IF k = "profile" THEN MainOutcomes
        ELSE IF k \in {"reel", "post"} THEN NoFetch ELSE NoCall

MainCallbackOutcomes(u, a, owner) ==
    IF is_session_valid(user_sessions, u, now) /\ u = owner /\ a # "cancel"
    THEN MainOutcomes ELSE NoCall

MainMessage == \E u \in Users, text \in Messages :
    \E o \in MainTextOutcomes(text) : MainText(u, text, o[1], o[2])

MainButton == \E u \in Users, a \in Actions, owner \in Users :
    \E o \in MainCallbackOutcomes(u, a, owner) :
        MainCallback(u, a, owner, o[1], o[2])

----------------------------------------------------------------------------
(* main.py: one callback followed through its download.  The Application   *)
(* is built without concurrent_updates and the handlers are registered     *)
(* with the default block=True: an update is dispatched when the handler   *)
(* of the previous one has returned; the Updater goes on queueing what     *)
(* arrives meanwhile.                                                       *)

FlightUsers == {1}

\* the handler's locals of a running download: session and url as read at
\* "Get session data", the second at which the download began
Flight(u, action, session, url, t) ==
    [ user |-> u, action |-> action, session |-> session, url |-> url,
      started |-> t ]

NoFlight ==
    Flight(0, "", Entry(0, Tok("none", ""), "none", 0), Tok("none", ""), 0)

\* a keyboard that was shown: callback_data is "<action>_<user id>", the
\* link is no part of it
Keyboard(u, url) == [user |-> u, url |-> url]

\* an update in the queue; during tells that a download was running when
\* it arrived, shown the link the pressed keyboard had been shown for
TextUpdate(u, text, during) ==
    [ kind |-> "text", user |-> u, text |-> text, action |-> "",
      owner |-> 0, shown |-> Tok("none", ""), during |-> during ]

PressUpdate(u, action, k, during) ==
    [ kind |-> "press", user |-> u, text |-> <<>>, action |-> action,
      owner |-> k.user, shown |-> k.url, during |-> during ]

FlightTexts ==
    { text \in Messages :
         extract_instagram_info_main(text).url_type \in {"reel", "post"} }

Idle_concurrent == TRUE

\* no handler is running
Idle == inflight = NoFlight

captured_url_of_keyboard(S, u, shown) == shown

\* session = bot.user_sessions[user_id]; url = session['url']
captured_url(S, u, shown) == SessionOf(S, u).url

fetch_url_latest(flight, queue) ==
    IF queue # <<>> /\ queue[Len(queue)].kind = "text"
    THEN extract_instagram_info_main(queue[Len(queue)].text).url
    ELSE flight.url

\* the url handed to download_with_ytdlp: the handler's local
fetch_url(flight, queue) == flight.url

Receive(upd) ==
    /\ program = "main"
    /\ Len(inbox) < MaxQueued
    /\ inbox' = Append(inbox, upd)
    /\ UNCHANGED <<program, now, mainVars, botVars, files, inflight, links,
                   last>>

ReceiveText == \E u \in FlightUsers, text \in FlightTexts :
    Receive(TextUpdate(u, text, ~Idle))

ReceivePress == \E u \in FlightUsers, a \in Actions, k \in links :
    Receive(PressUpdate(u, a, k, ~Idle))

\* handle_instagram_message on the update at the head of the queue
DispatchText(deliver) ==
    LET upd == Head(inbox)
        r == handle_instagram_message(user_sessions, files, upd.user,
                                      upd.text, now, "none", deliver)
    IN  /\ program = "main"
        /\ Idle
        /\ inbox # <<>>
        /\ upd.kind = "text"
        /\ inbox' = Tail(inbox)
        /\ user_sessions' = r.user_sessions
        /\ files' = r.files
        /\ prompts' = IF r.prompt THEN prompts \cup {upd.user} ELSE prompts
        /\ links' = IF r.prompt
                     THEN links \cup
                          { Keyboard(upd.user,
                                     extract_instagram_info_main(upd.text).url) }
                     ELSE links
        /\ last' = [Quiet EXCEPT !.op = "text", !.user = upd.user,
                                 !.classified = r.classified,
                                 !.response = r.response,
                                 !.kind = r.kind,
                                 !.buttons = r.buttons,
                                 !.during = upd.during]
        /\ UNCHANGED <<program, now, botVars, inflight>>

DispatchTexts == \E deliver \in {"ok", "raise"} : DispatchText(deliver)

\* handle_button_callback on the update at the head of the queue, up to the
\* call of download_with_ytdlp
DispatchPress ==
    LET upd == Head(inbox)
        S == user_sessions
        accepted == /\ is_session_valid(S, upd.user, now)
                    /\ upd.user = upd.owner
                    /\ upd.action # "cancel"
        r == handle_button_callback(S, files, upd.user, upd.action,
                                    upd.owner, now, "none", "ok")
    IN  /\ program = "main"
        /\ Idle
        /\ inbox # <<>>
        /\ upd.kind = "press"
        /\ inbox' = Tail(inbox)
        /\ IF accepted
           THEN /\ inflight' = Flight(upd.user, upd.action,
                                      SessionOf(S, upd.user),
                                      captured_url(S, upd.user, upd.shown),
                                      now)
                /\ last' = [Quiet EXCEPT !.op = "dispatch",
                                         !.user = upd.user,
                                         !.owner = upd.owner,
                                         !.action = upd.action,
                                         !.during = upd.during,
                                         !.shown = upd.shown]
                /\ UNCHANGED user_sessions
           ELSE /\ user_sessions' = r.user_sessions
                /\ last' = [Quiet EXCEPT !.op = "callback",
                                         !.user = upd.user,
                                         !.owner = upd.owner,
                                         !.action = upd.action,
                                         !.response = r.response,
                                         !.during = upd.during,
                                         !.shown = upd.shown]
                /\ UNCHANGED inflight
        /\ UNCHANGED <<program, now, prompts, botVars, files, links>>

\* the rest of handle_button_callback: the download returns, the file is
\* sent, and the finally block clears the session and deletes the file
FlightEnd(fetch, deliver) ==
    LET r == download_and_send(user_sessions, files, inflight.user,
                               fetch_url(inflight, inbox), inflight.action,
                               inflight.started, fetch, deliver)
    IN  /\ program = "main"
        /\ inflight # NoFlight
        /\ inflight' = NoFlight
        /\ user_sessions' = r.user_sessions
        /\ files' = r.files
        /\ last' = [Quiet EXCEPT !.op = "callback", !.user = inflight.user,
                                 !.owner = inflight.user,
                                 !.action = inflight.action,
                                 !.fetches = r.fetches,
                                 !.raised = r.raised,
                                 !.fault = Fault(fetch, deliver),
                                 !.response = r.response,
                                 !.fetched = r.fetched]
        /\ UNCHANGED <<program, now, prompts, botVars, inbox, links>>

FlightEnds == \E o \in MainOutcomes : FlightEnd(o[1], o[2])

KeepAliveTask_sweeps ==
    /\ program = "main"
    /\ user_sessions' =
          { e \in user_sessions : now - e.timestamp < session_timeout }
    /\ last' = [Quiet EXCEPT !.op = "keep_alive_task",
                             !.pings = Pings(last, "keep_alive_task")]
    /\ UNCHANGED <<flightVars, program, now, prompts, botVars, files>>

\* keep_alive_task: every five minutes a GET of REPL_URL/health; the
\* session store is neither read nor written
KeepAliveTask ==
    /\ program = "main"
    /\ last' = [Quiet EXCEPT !.op = "keep_alive_task",
                             !.pings = Pings(last, "keep_alive_task")]
    /\ UNCHANGED <<flightVars, program, now, mainVars, botVars, files>>

\* the same two events when the downloaded file cannot be removed
MainMessageStuck == \E u \in Users, text \in Messages :
    /\ extract_instagram_info_main(text).url_type = "profile"
    /\ \E o \in StuckOutcomes : MainText(u, text, o[1], o[2])

MainButtonStuck == \E u \in Users, a \in Actions, owner \in Users :
    /\ MainCallbackOutcomes(u, a, owner) # NoCall
    /\ \E o \in StuckOutcomes : MainCallback(u, a, owner, o[1], o[2])

----------------------------------------------------------------------------
(* main.py: the session store driven method by method *)

SessionUrls == { Tok("reel", "a"), Tok("post", "a") }

StoreCreate(u, url) ==
    /\ program = "main"
    /\ user_sessions' = create_session(user_sessions, u, url, url.kind, now)
    /\ last' = [Quiet EXCEPT !.op = "create_session", !.user = u,
                             !.had = HasSession(user_sessions, u)]
    /\ UNCHANGED <<flightVars, program, now, prompts, botVars, files>>

StoreClear(u) ==
    LET r == clear_session(user_sessions, u)
    IN  /\ program = "main"
        /\ user_sessions' = r.store
        /\ last' = [Quiet EXCEPT !.op = "clear_session", !.user = u,
                                 !.raised = r.raised,
                                 !.had = HasSession(user_sessions, u)]
        /\ UNCHANGED <<flightVars, program, now, prompts, botVars, files>>

StoreCheck(u) ==
    /\ program = "main"
    /\ last' = [Quiet EXCEPT !.op = "is_session_valid", !.user = u,
                             !.had = HasSession(user_sessions, u),
                             !.response =
                                 IF is_session_valid(user_sessions, u, now)
                                 THEN "valid" ELSE "invalid"]
    /\ UNCHANGED <<flightVars, program, now, mainVars, botVars, files>>

StoreCreates == \E u \in Users, url \in SessionUrls : StoreCreate(u, url)
StoreClears == \E u \in Users : StoreClear(u)
StoreChecks == \E u \in Users : StoreCheck(u)

----------------------------------------------------------------------------
(* instagram_bot.py: the rate limiter *)

Newer(s, bound) == SelectSeq(s, LAMBDA x : x > bound)

cleanup_old_requests_keeps_empty(R, t) ==
    [u \in DOMAIN R |-> Newer(R[u], t - ONE_HOUR)]

\* cleanup_old_requests: every record keeps the entries newer than one hour
\* ago; a user whose record is empty is removed
cleanup_old_requests(R, t) ==
    LET keep == { u \in DOMAIN R : Newer(R[u], t - ONE_HOUR) # <<>> }
    IN  [u \in keep |-> Newer(R[u], t - ONE_HOUR)]

is_rate_limited_allows_one_more(R, lc, u, t) ==
    LET sweep == (t - lc) > FIVE_MINUTES
        R1 == IF sweep THEN cleanup_old_requests(R, t) ELSE R
        R2 == [v \in DOMAIN R1 \cup {u} |->
                  IF v \in DOMAIN R1 THEN R1[v] ELSE <<>>]
        kept == Newer(R2[u], t - ONE_HOUR)
        lc1 == IF sweep THEN t ELSE lc
    IN  IF Len(kept) > MAX_REQUESTS_PER_HOUR
        THEN [ user_requests |-> [R2 EXCEPT ![u] = kept],
               last_cleanup |-> lc1, limited |-> TRUE, swept |-> sweep ]
        ELSE [ user_requests |-> [R2 EXCEPT ![u] = Append(kept, t)],
               last_cleanup |-> lc1, limited |-> FALSE, swept |-> sweep ]

is_rate_limited_resets(R, lc, u, t) ==
    LET sweep == (t - lc) > FIVE_MINUTES
        R1 == IF sweep THEN cleanup_old_requests(R, t) ELSE R
        R2 == [v \in DOMAIN R1 \cup {u} |->
                  IF v \in DOMAIN R1 THEN R1[v] ELSE <<>>]
        held == IF u \in DOMAIN R THEN R[u] ELSE <<>>
        kept == IF Newer(held, t - ONE_HOUR) = held THEN held ELSE <<>>
        lc1 == IF sweep THEN t ELSE lc
    IN  IF Len(kept) >= MAX_REQUESTS_PER_HOUR
        THEN [ user_requests |-> [R2 EXCEPT ![u] = kept],
               last_cleanup |-> lc1, limited |-> TRUE, swept |-> sweep ]
        ELSE [ user_requests |-> [R2 EXCEPT ![u] = Append(kept, t)],
               last_cleanup |-> lc1, limited |-> FALSE, swept |-> sweep ]

\* is_rate_limited: the sweep when more than five minutes have passed since
\* the last one, then the user's own record: prune, compare, append
is_rate_limited(R, lc, u, t) ==
    LET sweep == (t - lc) > FIVE_MINUTES
        R1 == IF sweep THEN cleanup_old_requests(R, t) ELSE R
        R2 == [v \in DOMAIN R1 \cup {u} |->
                  IF v \in DOMAIN R1 THEN R1[v] ELSE <<>>]
        kept == Newer(R2[u], t - ONE_HOUR)
        lc1 == IF sweep THEN t ELSE lc
    IN  IF Len(kept) >= MAX_REQUESTS_PER_HOUR
        THEN [ user_requests |-> [R2 EXCEPT ![u] = kept],
               last_cleanup |-> lc1, limited |-> TRUE, swept |-> sweep ]
        ELSE [ user_requests |-> [R2 EXCEPT ![u] = Append(kept, t)],
               last_cleanup |-> lc1, limited |-> FALSE, swept |-> sweep ]

Gate(limited) == IF limited THEN "denied" ELSE "admitted"

\* history: the admissions of user u that are less than one hour old
Recent(s, t) == SelectSeq(s, LAMBDA x : t - x < ONE_HOUR)

LimiterTick ==
    /\ program = "instagram_bot"
    /\ \E t \in LimiterInstants :
          /\ t > now
          /\ now' = t
          /\ admitted' = [u \in BotUsers |-> Recent(admitted[u], t)]
    /\ last' = [Quiet EXCEPT !.op = "tick"]
    /\ UNCHANGED <<flightVars, program, mainVars, keyboards, user_requests, last_cleanup,
                   user_data, instagram_client, files>>

LimiterCall(u) ==
    LET r == is_rate_limited(user_requests, last_cleanup, u, now)
    IN  /\ program = "instagram_bot"
        /\ user_requests' = r.user_requests
        /\ last_cleanup' = r.last_cleanup
        /\ admitted' = IF r.limited THEN admitted
                       ELSE [admitted EXCEPT ![u] = Append(@, now)]
        /\ last' = [Quiet EXCEPT !.op = "is_rate_limited", !.user = u,
                                 !.gate = Gate(r.limited), !.swept = r.swept]
        /\ UNCHANGED <<flightVars, program, now, mainVars, keyboards, user_data,
                       instagram_client, files>>

LimiterCalls == \E u \in BotUsers : LimiterCall(u)

\* the limiter with two users around the sweep's five minutes; the history
\* admitted is not kept here
SweepUsers == {1, 2}

SweepInstants ==
    {0} \cup (FIVE_MINUTES .. (FIVE_MINUTES + Slack))
        \cup ((ONE_HOUR + FIVE_MINUTES) .. (ONE_HOUR + FIVE_MINUTES + Slack))

SweepTick ==
    /\ program = "instagram_bot"
    /\ \E t \in SweepInstants : t > now /\ now' = t
    /\ last' = [Quiet EXCEPT !.op = "tick"]
    /\ UNCHANGED <<flightVars, program, mainVars, botVars, files>>

SweepCall(u) ==
    LET r == is_rate_limited(user_requests, last_cleanup, u, now)
        held == IF u \in DOMAIN user_requests THEN user_requests[u] ELSE <<>>
    IN  /\ program = "instagram_bot"
        /\ Len(held) < MaxCalls
        /\ user_requests' = r.user_requests
        /\ last_cleanup' = r.last_cleanup
        /\ last' = [Quiet EXCEPT !.op = "is_rate_limited", !.user = u,
                                 !.gate = Gate(r.limited), !.swept = r.swept,
                                 !.had = (DOMAIN user_requests \ {u} # {})]
        /\ UNCHANGED <<flightVars, program, now, mainVars, keyboards, user_data,
                       instagram_client, admitted, files>>

SweepCalls == \E u \in SweepUsers : SweepCall(u)

KeepAlivePing_sweeps ==
    /\ program = "instagram_bot"
    /\ user_requests' = cleanup_old_requests(user_requests, now)
    /\ last' = [Quiet EXCEPT !.op = "keep_alive_ping",
                             !.pings = Pings(last, "keep_alive_ping")]
    /\ UNCHANGED <<flightVars, program, now, mainVars, keyboards, last_cleanup,
                   user_data, instagram_client, admitted, files>>

\* keep_alive_ping: every five minutes a GET of the health URL, when
\* WEBHOOK_URL is set; no state of the limiter is read or written
KeepAlivePing ==
    /\ program = "instagram_bot"
    /\ last' = [Quiet EXCEPT !.op = "keep_alive_ping",
                             !.pings = Pings(last, "keep_alive_ping")]
    /\ UNCHANGED <<flightVars, program, now, mainVars, botVars, files>>

----------------------------------------------------------------------------
(* instagram_bot.py: the handlers.  context.user_data is per user; it is   *)
(* the set of its entries [user, key, url, stored_at], where key stands    *)
(* for "url_<id>" and stored_at is history (the code stores the URL only). *)

Formats == {"video", "audio"}

Pending(u, k, url, t) == [user |-> u, key |-> k, url |-> url, stored_at |-> t]

HasPending(D, u, k) == \E e \in D : e.user = u /\ e.key = k

PendingOf(D, u, k) == CHOOSE e \in D : e.user = u /\ e.key = k

Without(D, u, k) == { e \in D : ~(e.user = u /\ e.key = k) }

\* the MessageHandler filter filters.Regex(r'instagram\.com')
MentionsInstagram(text) == \E i \in 1 .. Len(text) : text[i].kind # "word"

\* re.findall(r'https?://(?:www\.)?instagram\.com/[^\s]+', text)
IsUrl(tok) == tok.kind \in {"other", "profile", "reel", "post", "story"}

FirstUrl(text) ==
    LET I == { i \in 1 .. Len(text) : IsUrl(text[i]) }
    IN  IF I = {} THEN 0 ELSE Min(I)

\* extract_instagram_info on one URL: profile, reel, post, story, else unknown
extract_instagram_info_bot(url) ==
    IF url.kind \in {"profile", "reel", "post", "story"}
    THEN [type |-> url.kind, id |-> url.id, url |-> url]
    ELSE [type |-> "unknown", id |-> "", url |-> url]

\* safe_delete_file: os.remove when the path exists
safe_delete_file_bot(F, file_path) ==
    [ files |-> IF file_path.locked THEN F ELSE F \ {file_path},
      raised |-> FALSE ]

\* download_with_ytdlp: the file is instagram_<second>.*; a dict with its
\* path is returned, None when yt-dlp raised
download_with_ytdlp_bot(F, t, fetch) ==
    IF fetch \in {"file", "stuck"}
    THEN [ files |-> F \cup {Left(File("instagram", t), fetch)},
           value |-> "dict",
           file_path |-> Left(File("instagram", t), fetch) ]
    ELSE [ files |-> F, value |-> "none", file_path |-> NoFile ]

\* download_profile_picture: with a client the picture is written to
\* profile_<username>_<second>.jpg and its path returned; without a client
\* the value of download_with_ytdlp, a dict or None, is returned as it is
download_profile_picture(F, t, client, fetch) ==
    IF client = "none" THEN download_with_ytdlp_bot(F, t, fetch)
    ELSE IF fetch \in {"file", "stuck"}
    THEN [ files |-> F \cup {Left(File("profile", t), fetch)},
           value |-> "path",
           file_path |-> Left(File("profile", t), fetch) ]
    ELSE [ files |-> F, value |-> "none", file_path |-> NoFile ]

\* handle_profile_download: os.path.exists raises TypeError on a dict and
\* the exception leaves the function before its try block; on a path the
\* photo is sent and the finally block deletes the file
handle_profile_download_bot(F, t, client, fetch, deliver) ==
    LET d == download_profile_picture(F, t, client, fetch)
    IN  IF d.value = "none"
        THEN [ response |-> "download_failed", fetches |-> 1,
               files |-> d.files, raised |-> FALSE ]
        ELSE IF d.value = "dict"
        THEN [ response |-> "error", fetches |-> 1, files |-> d.files,
               raised |-> FALSE ]
        ELSE [ response |-> IF deliver = "ok" THEN "photo" ELSE "error",
               fetches |-> 1,
               files |-> safe_delete_file_bot(d.files, d.file_path).files,
               raised |-> safe_delete_file_bot(d.files, d.file_path).raised ]

\* handle_reel_download: the keyboard (Video, Audio Only) is shown first,
\* then the URL is stored
handle_reel_download(D, u, info, t, deliver) ==
    IF deliver = "ok"
    THEN [ user_data |-> Without(D, u, info.id)
                           \cup {Pending(u, info.id, info.url, t)},
           response |-> "choice", prompt |-> TRUE, buttons |-> Formats ]
    ELSE [ user_data |-> D, response |-> "error", prompt |-> FALSE,
           buttons |-> {} ]

\* handle_instagram_url after the rate limiter has admitted the message
dispatch_instagram_url(base, D, client, u, text, t, fetch, deliver) ==
    IF FirstUrl(text) = 0 THEN [base EXCEPT !.response = "no_url"]
    ELSE LET info == extract_instagram_info_bot(text[FirstUrl(text)])
             seen == [base EXCEPT !.classified = TRUE, !.kind = info.type]
         IN  IF info.type = "profile"
             THEN LET r == handle_profile_download_bot(base.files, t, client,
                                                       fetch, deliver)
                  IN  [seen EXCEPT !.response = r.response,
                                   !.fetches = r.fetches,
                                   !.files = r.files,
                                   !.raised = r.raised]
             ELSE IF info.type \in {"reel", "post"}
             THEN LET r == handle_reel_download(D, u, info, t, deliver)
                  IN  [seen EXCEPT !.user_data = r.user_data,
                                   !.response = r.response,
                                   !.prompt = r.prompt,
                                   !.buttons = r.buttons]
             ELSE [seen EXCEPT !.response = "unsupported"]

handle_instagram_url_gate_last(R, lc, D, F, client, u, text, t, fetch, deliver) ==
    LET rl == is_rate_limited(R, lc, u, t)
        base == [ user_requests |-> rl.user_requests,
                  last_cleanup |-> rl.last_cleanup, user_data |-> D,
                  files |-> F,
                  limited |-> rl.limited, classified |-> FALSE,
                  fetches |-> 0, response |-> "rate_limited",
                  prompt |-> FALSE, kind |-> "none", buttons |-> {},
                  raised |-> FALSE ]
        done == dispatch_instagram_url(base, D, client, u, text, t, fetch, deliver)
    IN  IF rl.limited THEN [done EXCEPT !.response = "rate_limited"] ELSE done

\* handle_instagram_url: is_rate_limited is the first call; a denial returns
\* at once with the rate-limit text
handle_instagram_url(R, lc, D, F, client, u, text, t, fetch, deliver) ==
    LET rl == is_rate_limited(R, lc, u, t)
        base == [ user_requests |-> rl.user_requests,
                  last_cleanup |-> rl.last_cleanup, user_data |-> D,
                  files |-> F,
                  limited |-> rl.limited, classified |-> FALSE,
                  fetches |-> 0, response |-> "rate_limited",
                  prompt |-> FALSE, kind |-> "none", buttons |-> {},
                  raised |-> FALSE ]
    IN  IF rl.limited THEN base
        ELSE dispatch_instagram_url(base, D, client, u, text, t, fetch, deliver)

\* handle_format_callback: the stored URL is looked up by the content id of
\* the button; no time is compared.  The inner finally block deletes the
\* file, the outer one removes the entry.
handle_format_callback(D, F, u, format, k, t, fetch, deliver) ==
    IF ~HasPending(D, u, k)
    THEN [ user_data |-> D, files |-> F, response |-> "session_expired",
           fetches |-> 0, fetched |-> Tok("none", ""), raised |-> FALSE ]
    ELSE LET d == download_with_ytdlp_bot(F, t, fetch)
             url == PendingOf(D, u, k).url
         IN  IF d.value = "dict"
             THEN [ user_data |-> Without(D, u, k),
                    files |-> safe_delete_file_bot(d.files, d.file_path).files,
                    response |-> IF deliver = "ok" THEN format ELSE "error",
                    fetches |-> 1, fetched |-> url,
                    raised |-> safe_delete_file_bot(d.files, d.file_path).raised ]
             ELSE [ user_data |-> Without(D, u, k), files |-> d.files,
                    response |-> "download_failed", fetches |-> 1,
                    fetched |-> url, raised |-> FALSE ]

----------------------------------------------------------------------------
(* instagram_bot.py: the actions *)

BotTick ==
    /\ program = "instagram_bot"
    /\ \E t \in BotInstants :
          /\ t > now
          /\ now' = t
          /\ admitted' = [u \in BotUsers |-> Recent(admitted[u], t)]
    /\ last' = [Quiet EXCEPT !.op = "tick"]
    /\ UNCHANGED <<flightVars, program, mainVars, keyboards, user_requests, last_cleanup,
                   user_data, instagram_client, files>>

\* a text message; one without "instagram.com" reaches no handler
BotText(u, text, fetch, deliver) ==
    LET r == handle_instagram_url(user_requests, last_cleanup, user_data,
                                  files, instagram_client, u, text, now,
                                  fetch, deliver)
    IN  /\ program = "instagram_bot"
        /\ IF MentionsInstagram(text)
           THEN /\ user_requests' = r.user_requests
                /\ last_cleanup' = r.last_cleanup
                /\ user_data' = r.user_data
                /\ files' = r.files
                /\ keyboards' = IF r.prompt
                                THEN keyboards \cup {text[FirstUrl(text)].id}
                                ELSE keyboards
                /\ admitted' = IF r.limited THEN admitted
                               ELSE [admitted EXCEPT ![u] = Append(@, now)]
                /\ last' = [Quiet EXCEPT !.op = "text", !.user = u,
                                         !.gate = Gate(r.limited),
                                         !.classified = r.classified,
                                         !.fetches = r.fetches,
                                         !.raised = r.raised,
                                         !.fault = IF r.fetches > 0
                                                   THEN Fault(fetch, deliver)
                                                   ELSE "none",
                                         !.response = r.response,
                                         !.kind = r.kind,
                                         !.buttons = r.buttons]
           ELSE /\ last' = [Quiet EXCEPT !.op = "text", !.user = u,
                                         !.response = "none"]
                /\ UNCHANGED <<user_requests, last_cleanup, user_data,
                               files, keyboards, admitted>>
        /\ UNCHANGED <<flightVars, program, now, mainVars, instagram_client>>

\* a press of a button of a keyboard that has been shown; callback_data is
\* "<format>_<content id>"
BotCallback(u, format, k, fetch, deliver) ==
    LET r == handle_format_callback(user_data, files, u, format, k, now,
                                    fetch, deliver)
    IN  /\ program = "instagram_bot"
        /\ k \in keyboards
        /\ user_data' = r.user_data
        /\ files' = r.files
        /\ last' = [Quiet EXCEPT !.op = "callback", !.user = u, !.key = k,
                                 !.action = format,
                                 !.had = HasPending(user_data, u, k),
                                 !.fetches = r.fetches,
                                 !.raised = r.raised,
                                 !.fault = IF r.fetches > 0
                                           THEN Fault(fetch, deliver)
                                           ELSE "none",
                                 !.response = r.response,
                                 !.fetched = r.fetched]
        /\ UNCHANGED <<flightVars, program, now, mainVars, keyboards, user_requests,
                       last_cleanup, instagram_client, admitted>>

BotTextOutcomes(text) ==
    IF FirstUrl(text) = 0 THEN NoCall
    ELSE LET k == extract_instagram_info_bot(text[FirstUrl(text)]).type
         IN  IF k = "profile" THEN Outcomes
             ELSE IF k \in {"reel", "post"} THEN NoFetch ELSE NoCall

BotCallbackOutcomes(u, k) ==
    IF HasPending(user_data, u, k) THEN Outcomes ELSE NoCall

BotMessage == \E u \in BotUsers, text \in Messages :
    \E o \in BotTextOutcomes(text) : BotText(u, text, o[1], o[2])

BotButton == \E u \in BotUsers, f \in Formats, k \in Ids :
    \E o \in BotCallbackOutcomes(u, k) : BotCallback(u, f, k, o[1], o[2])

\* the same two events when the downloaded file cannot be removed
BotMessageStuck == \E u \in BotUsers, text \in Messages :
    /\ BotTextOutcomes(text) = Outcomes
    /\ \E o \in StuckOutcomes : BotText(u, text, o[1], o[2])

BotButtonStuck == \E u \in BotUsers, f \in Formats, k \in Ids :
    /\ HasPending(user_data, u, k)
    /\ \E o \in StuckOutcomes : BotCallback(u, f, k, o[1], o[2])

----------------------------------------------------------------------------
(* The classifiers alone, applied once to a text of several tokens *)

Texts == UNION { [1 .. n -> Tokens] : n \in 1 .. MaxLinks }

\* instagram_bot.py: handle_instagram_url classifies instagram_urls[0], the
\* leftmost URL of the text
classify_first_url(text) ==
    IF FirstUrl(text) = 0 THEN "none"
    ELSE extract_instagram_info_bot(text[FirstUrl(text)]).type

ClassifyMain(text) ==
    /\ program = "main"
    /\ last = Quiet
    /\ last' = [ op |-> "extract_instagram_info", text |-> text,
                 url_type |-> extract_instagram_info_main(text).url_type ]
    /\ UNCHANGED <<flightVars, program, now, mainVars, botVars, files>>

ClassifyBot(text) ==
    /\ program = "instagram_bot"
    /\ last = Quiet
    /\ last' = [ op |-> "extract_instagram_info", text |-> text,
                 url_type |-> classify_first_url(text) ]
    /\ UNCHANGED <<flightVars, program, now, mainVars, botVars, files>>

ClassifyMains == \E text \in Texts : ClassifyMain(text)
ClassifyBots == \E text \in Texts : ClassifyBot(text)

----------------------------------------------------------------------------
(* main.py: the captions.  A string is its length in characters, one       *)
(* string per length, so that two fields are equal when their lengths are; *)
(* 0 is the empty string or None.                                          *)

FieldLengths == {0, 1, DESCRIPTION_LIMIT, DESCRIPTION_LIMIT + 1, MaxField}

RECURSIVE Sum(_)
Sum(s) == IF s = <<>> THEN 0 ELSE Head(s) + Sum(Tail(s))

\* download_with_ytdlp, "Create caption": the parts for the uploader, the
\* title when it differs from the uploader and the description when it
\* differs from the title, cut to 200 characters and "..."
caption_parts(uploader, title, description) ==
    (IF uploader > 0 THEN <<4 + uploader + 2>> ELSE <<>>)
    \o (IF title > 0 /\ title # uploader THEN <<2 + title>> ELSE <<>>)
    \o (IF description > 0 /\ description # title
        THEN <<2 + (IF description > DESCRIPTION_LIMIT
                    THEN DESCRIPTION_LIMIT + 3 ELSE description)>>
        ELSE <<>>)

\* "\n\n".join(caption_parts) if caption_parts else None
build_caption(uploader, title, description) ==
    LET parts == caption_parts(uploader, title, description)
    IN  IF parts = <<>> THEN 0 ELSE Sum(parts) + 2 * (Len(parts) - 1)

\* handle_profile_download: the heading, a blank line and the caption
profile_caption_text(caption) ==
    IF caption > 0 THEN 36 + caption ELSE 34

\* handle_button_callback: the heading, a blank line and the caption, and
\* then caption_text[:1024]
media_caption_text(caption) ==
    LET caption_text == IF caption > 0 THEN 37 + 2 + caption ELSE 37
    IN  IF caption_text > CAPTION_LIMIT THEN CAPTION_LIMIT ELSE caption_text

ReplyPhoto(uploader, title, description) ==
    /\ program = "main"
    /\ last = Quiet
    /\ last' = [ op |-> "reply_photo", uploader |-> uploader,
                 title |-> title, description |-> description,
                 caption |-> profile_caption_text(
                                build_caption(uploader, title, description)) ]
    /\ UNCHANGED <<flightVars, program, now, mainVars, botVars, files>>

ReplyMedia(action, uploader, title, description) ==
    /\ program = "main"
    /\ last = Quiet
    /\ last' = [ op |-> IF action = "audio" THEN "reply_audio"
                                            ELSE "reply_video",
                 uploader |-> uploader,
                 title |-> title, description |-> description,
                 caption |-> media_caption_text(
                                build_caption(uploader, title, description)) ]
    /\ UNCHANGED <<flightVars, program, now, mainVars, botVars, files>>

ReplyPhotos == \E u, t, d \in FieldLengths : ReplyPhoto(u, t, d)
ReplyMedias == \E a \in {"video", "audio"}, u, t, d \in FieldLengths :
    ReplyMedia(a, u, t, d)

InitShared ==
    /\ now = 0
    /\ user_sessions = {}
    /\ prompts = {}
    /\ keyboards = {}
    /\ user_requests = <<>>
    /\ last_cleanup = 0
    /\ user_data = {}
    /\ files = {}
    /\ admitted = [u \in BotUsers |-> <<>>]
    /\ inbox = <<>>
    /\ inflight = NoFlight
    /\ links = {}
    /\ last = Quiet

InitMain ==
    /\ program = "main"
    /\ instagram_client = "none"
    /\ InitShared

NextMain == MainTick \/ MainMessage \/ MainButton

SpecMain == InitMain /\ [][NextMain]_vars


SpecStore == InitMain /\ [][MainTick \/ StoreCreates \/ StoreClears \/ StoreChecks]_vars

\* setup_instagram_client leaves the client set, or None when it fails
InitBot ==
    /\ program = "instagram_bot"
    /\ instagram_client \in {"none", "client"}
    /\ InitShared

InitLimiter ==
    /\ InitBot
    /\ instagram_client = "none"

SpecLimiter == InitLimiter /\ [][LimiterTick \/ LimiterCalls]_vars

NextSweep == SweepTick \/ SweepCalls \/ KeepAlivePing

SpecSweep == InitLimiter /\ [][NextSweep]_vars

\* time passes and the keep-alive loop keeps waking; no user is obliged to
\* send anything
SpecSweepFair ==
    SpecSweep /\ WF_vars(SweepTick) /\ WF_vars(KeepAlivePing)

NextBot == BotTick \/ BotMessage \/ BotButton

SpecBot == InitBot /\ [][NextBot]_vars

Init == InitMain \/ InitBot

Next == NextMain \/ NextBot

Spec == Init /\ [][Next]_vars

NextFlight ==
    \/ MainTick \/ ReceiveText \/ ReceivePress
    \/ DispatchTexts \/ DispatchPress \/ FlightEnds

SpecFlight == InitMain /\ [][NextFlight]_vars

NextIdle == NextMain \/ KeepAliveTask

\* time passes and the keep-alive loop keeps waking; no user is obliged to
\* send or press anything
SpecIdle ==
    InitMain /\ [][NextIdle]_vars /\ WF_vars(MainTick)
             /\ WF_vars(KeepAliveTask)

SpecCaption == InitMain /\ [][ReplyPhotos \/ ReplyMedias]_vars

SpecClassify == Init /\ [][ClassifyMains \/ ClassifyBots]_vars

\* both programs at one instant, with downloads whose file cannot be removed
NextCleanup ==
    \/ MainMessage \/ MainButton \/ MainMessageStuck \/ MainButtonStuck
    \/ BotMessage \/ BotButton \/ BotMessageStuck \/ BotButtonStuck

SpecCleanup == Init /\ [][NextCleanup]_vars

----------------------------------------------------------------------------
(* Properties *)

RecordOf(R, u) == IF u \in DOMAIN R THEN R[u] ELSE <<>>

Count(s, Test(_)) == Len(SelectSeq(s, Test))

C2_AdmitStepKeepsHourOld ==
    [][ last'.op = "is_rate_limited" =>
          LET u == last'.user
              kept == SelectSeq(RecordOf(user_requests, u),
                                LAMBDA x : ~(x < now - ONE_HOUR))
          IN  IF Len(kept) >= MAX_REQUESTS_PER_HOUR
              THEN /\ last'.gate = "denied"
                   /\ RecordOf(user_requests', u) = kept
              ELSE /\ last'.gate = "admitted"
                   /\ RecordOf(user_requests', u) = Append(kept, now) ]_vars

\* C2, as the code does it: the step also prunes the entry that is exactly
\* one hour old.
C2_AdmitStepAsCoded ==
    [][ last'.op = "is_rate_limited" =>
          LET u == last'.user
              kept == SelectSeq(RecordOf(user_requests, u),
                                LAMBDA x : now - x < ONE_HOUR)
          IN  IF Len(kept) >= MAX_REQUESTS_PER_HOUR
              THEN /\ last'.gate = "denied"
                   /\ RecordOf(user_requests', u) = kept
              ELSE /\ last'.gate = "admitted"
                   /\ RecordOf(user_requests', u) = Append(kept, now) ]_vars

\* C3: capacity is released by sliding: a call made once the oldest recorded
\* timestamp is more than one hour old is admitted; every entry less than
\* one hour old stays in the record; and the slots a call frees are those of
\* the entries that have aged out, one each.
C3_SlidingRelease ==
    [][ last'.op = "is_rate_limited" =>
          LET u == last'.user
              old == RecordOf(user_requests, u)
              new == RecordOf(user_requests', u)
              took == IF last'.gate = "admitted" THEN 1 ELSE 0
              freed == Len(old) + took - Len(new)
          IN  /\ (old # <<>> /\ now - old[1] > ONE_HOUR)
                    => last'.gate = "admitted"
              /\ \A i \in 1 .. Len(old) :
                    now - old[i] < ONE_HOUR
                       => \E j \in 1 .. Len(new) : new[j] = old[i]
              /\ Count(old, LAMBDA x : now - x > ONE_HOUR) <= freed
              /\ freed <= Count(old, LAMBDA x : now - x >= ONE_HOUR)
              /\ Len(new) - took = Count(old, LAMBDA x : now - x < ONE_HOUR) ]_vars

C3_Witness ==
    /\ last.op = "is_rate_limited"
    /\ last.gate = "admitted"
    /\ now > ONE_HOUR
    /\ Len(RecordOf(user_requests, 1)) = MAX_REQUESTS_PER_HOUR
    /\ RecordOf(user_requests, 1)[1] < ONE_HOUR
    /\ RecordOf(user_requests, 1)[MAX_REQUESTS_PER_HOUR] = now

SessionsChanged == user_sessions' # user_sessions \/ user_data' # user_data

\* the gate in front of the text handler
GateFirst ==
    last'.op = "text" =>
        /\ (last'.classified \/ last'.fetches > 0 \/ SessionsChanged)
              => last'.gate = "admitted"
        /\ last'.gate = "denied"
              => /\ last'.response = "rate_limited"
                 /\ ~last'.classified
                 /\ last'.fetches = 0
                 /\ ~SessionsChanged
                 /\ keyboards' = keyboards
        /\ last'.gate = "admitted"
              <=> ( /\ admitted'[last'.user] = Append(admitted[last'.user], now)
                    /\ last'.response # "none" )

\* C4: no text message is classified, changes a session or triggers a fetch
\* unless the rate limiter admitted it; a denial has the rate-limited
\* response as its only effect.
C4_GateFirstEverywhere == [][GateFirst]_vars

\* C4, amended: the same of instagram_bot.py alone.
C4_GateFirstInBot == [][program = "instagram_bot" => GateFirst]_vars

C4_Witness ==
    /\ program = "instagram_bot"
    /\ last.op = "text"
    /\ last.gate = "denied"
    /\ last.response = "rate_limited"

\* the pending choice of the acting user is at least session_timeout old
ExpiredAtCallback ==
    /\ last'.op = "callback"
    /\ IF program = "main"
       THEN /\ HasSession(user_sessions, last'.user)
            /\ now - SessionOf(user_sessions, last'.user).timestamp
                  >= session_timeout
       ELSE /\ HasPending(user_data, last'.user, last'.key)
            /\ now - PendingOf(user_data, last'.user, last'.key).stored_at
                  >= session_timeout

NotActedUpon ==
    /\ last'.fetches = 0
    /\ last'.response = "session_expired"

\* C5: a callback handled when the acting user's session is 300 s old or
\* older invokes no fetch and answers that the session expired.
C5_ExpiredNeverActedUpon == [][ExpiredAtCallback => NotActedUpon]_vars

\* C5, amended: the same of main.py alone.
C5_ExpiredNeverActedUponInMain ==
    [][(program = "main" /\ ExpiredAtCallback) => NotActedUpon]_vars

C5_Witness ==
    /\ program = "main"
    /\ last.op = "callback"
    /\ last.user = last.owner
    /\ last.response = "session_expired"
    /\ HasSession(user_sessions, last.user)
    /\ now - SessionOf(user_sessions, last.user).timestamp >= session_timeout

\* C6: is_session_valid is false exactly when the user has no session or
\* the session is 300 s old or older: valid at 299 s, invalid at 300 s.
C6_ValidityBoundary ==
    \A u \in Users :
        /\ (~\E e \in user_sessions : e.user = u)
              => ~is_session_valid(user_sessions, u, now)
        /\ \A e \in user_sessions :
              e.user = u =>
                 /\ now - e.timestamp <= 299
                       => is_session_valid(user_sessions, u, now)
                 /\ now - e.timestamp >= 300
                       => ~is_session_valid(user_sessions, u, now)

C6_Witness ==
    \E e1, e2 \in user_sessions :
        /\ now - e1.timestamp = 299
        /\ now - e2.timestamp = 300
        /\ is_session_valid(user_sessions, e1.user, now)
        /\ ~is_session_valid(user_sessions, e2.user, now)

\* the messages whose link is a reel or a post
ChoiceTexts ==
    { text \in Messages :
         extract_instagram_info_main(text).url_type \in {"reel", "post"} }

\* C7: the store holds at most one session per user, and a message that
\* creates a session replaces the sender's session by the new one (URL,
\* kind, creation time) and leaves the other users' sessions as they were.
C7_OneSessionPerUser ==
    [][ /\ \A u \in Users :
              Cardinality({ e \in user_sessions' : e.user = u }) <= 1
        /\ \A u \in Users, text \in ChoiceTexts, o \in NoFetch :
              MainText(u, text, o[1], o[2])
              => user_sessions' =
                    { e \in user_sessions : e.user # u }
                       \cup { Entry(u, text[1], text[1].kind, now) } ]_vars

C7_Witness ==
    /\ program = "main"
    /\ last.op = "text"
    /\ last.had
    /\ \E e \in user_sessions : e.user = last.user /\ e.timestamp = now
    /\ \E e \in user_sessions : e.user # last.user /\ e.timestamp < now

\* C8: clear_session never raises, removes the user's session and nothing
\* else, changes nothing when the user has none, and a second call leaves
\* the store as the first one did.
C8_ClearIdempotent ==
    [][ last'.op = "clear_session" =>
          LET u == last'.user
              again == clear_session(user_sessions', u)
          IN  /\ ~last'.raised
              /\ user_sessions' = { e \in user_sessions : e.user # u }
              /\ ~HasSession(user_sessions, u) => user_sessions' = user_sessions
              /\ ~again.raised
              /\ again.store = user_sessions' ]_vars

C8_Witness ==
    /\ last.op = "clear_session"
    /\ ~last.had
    /\ ~last.raised
    /\ user_sessions # {}

\* a press by a user other than the one the button names
StrangerPressed(l) == l.op = "callback" /\ l.user # l.owner

\* C9: a press by a user other than the button's owner is answered "not for
\* you", never otherwise, and fetches nothing.
C9_StrangerGetsNotForYou ==
    [][ (program = "main" /\ StrangerPressed(last')) =>
            /\ last'.response = "not_for_you"
            /\ last'.fetches = 0 ]_vars

\* C10: a press by a user other than the button's owner leaves the session
\* store as it was: the owner's session stays, as valid as before, and the
\* presser's own session is neither created, changed nor removed.
C10_StrangerLeavesStore ==
    [][ (program = "main" /\ StrangerPressed(last')) =>
            /\ user_sessions' = user_sessions
            /\ is_session_valid(user_sessions', last'.owner, now)
                  = is_session_valid(user_sessions, last'.owner, now) ]_vars

C10_Witness ==
    /\ program = "main"
    /\ StrangerPressed(last)
    /\ last.response = "not_for_you"
    /\ is_session_valid(user_sessions, last.owner, now)
    /\ is_session_valid(user_sessions, last.user, now)

\* C11: whatever the outcome of a fetch, no file that a fetch produced is
\* left in the download directory when the handler has returned.
C11_NoFileLeft == files = {}

\* C11, of main.py alone, where both finally blocks delete the file
C11_NoFileLeftInMain == program = "main" => files = {}

\* a Video or Audio press by the owner of a session that is still valid
\* (main.py), or of a button whose URL is still stored (instagram_bot.py)
ChoiceAccepted ==
    /\ last'.op = "callback"
    /\ IF program = "main"
       THEN /\ last'.user = last'.owner
            /\ last'.action \in {"video", "audio"}
            /\ is_session_valid(user_sessions, last'.user, now)
       ELSE HasPending(user_data, last'.user, last'.key)

C13_CancelClearsAndStops ==
    [][ ( /\ program = "main"
          /\ last'.op = "callback"
          /\ last'.action = "cancel"
          /\ last'.user = last'.owner
          /\ is_session_valid(user_sessions, last'.user, now) )
        => /\ user_sessions' = { e \in user_sessions : e.user # last'.user }
           /\ last'.fetches = 0
           /\ last'.fetched = Tok("none", "")
           /\ files' = files
           /\ last'.response = "cancelled" ]_vars

C13_Witness ==
    /\ program = "main"
    /\ last.op = "callback"
    /\ last.action = "cancel"
    /\ last.response = "cancelled"
    /\ ~HasSession(user_sessions, last.user)
    /\ user_sessions # {}

\* a request main.py accepts for a fetch: a profile message, or a Video or
\* Audio press by the owner of a valid session
AcceptedInMain ==
    \/ last'.op = "text" /\ last'.kind = "profile"
    \/ /\ last'.op = "callback"
       /\ last'.user = last'.owner
       /\ last'.action \in {"video", "audio"}
       /\ is_session_valid(user_sessions, last'.user, now)

\* C14: an accepted request invokes the fetcher exactly once and any other
\* event never; a failed fetch is not repeated, and a fetch from a callback
\* consumes the session, so that no further press fetches again before the
\* user sends a new message.
C14_FetchExactlyOnce ==
    [][ program = "main" =>
          /\ last'.fetches = (IF AcceptedInMain THEN 1 ELSE 0)
          /\ (last'.op = "callback" /\ last'.fetches > 0)
                => ~HasSession(user_sessions', last'.user)
          /\ (last'.op = "callback" /\ ~HasSession(user_sessions, last'.user))
                => last'.fetches = 0 ]_vars

C14_Witness ==
    /\ program = "main"
    /\ last.op = "text"
    /\ last.kind = "profile"
    /\ last.response = "download_failed"
    /\ last.fetches = 1

\* the pending choice the handler stored for the sender of the message
StoredForSender ==
    IF program = "main"
    THEN \E e \in user_sessions' :
            /\ e.user = last'.user
            /\ e.timestamp = now
            /\ e.url_type = last'.kind
    ELSE \E e \in user_data' :
            /\ e.user = last'.user
            /\ e.stored_at = now
            /\ e.url.kind = last'.kind

\* a reel or post link is fetched only by a Video or Audio press of the user
\* whose pending choice holds that link
FetchedOnChoiceOnly ==
    /\ (last'.op = "text" /\ last'.kind \in {"reel", "post"})
          => last'.fetches = 0 /\ files' = files
    /\ last'.fetched.kind \in {"reel", "post"}
          => /\ last'.op = "callback"
             /\ last'.action \in {"video", "audio"}
             /\ IF program = "main"
                THEN /\ HasSession(user_sessions, last'.user)
                     /\ SessionOf(user_sessions, last'.user).url = last'.fetched
                ELSE /\ HasPending(user_data, last'.user, last'.key)
                     /\ PendingOf(user_data, last'.user, last'.key).url
                           = last'.fetched

\* the prompt that answers a reel or post link
ChoicePrompted ==
    /\ last'.op = "text"
    /\ last'.kind \in {"reel", "post"}
    /\ last'.response = "choice"

\* C15: a reel or post message gets a session for its sender and the
\* Video/Audio/Cancel choice, and its link is not fetched before a Video or
\* Audio callback of the same user.
C15_ChoiceBeforeFetch ==
    [][ /\ ChoicePrompted
           => StoredForSender /\ last'.buttons = {"video", "audio", "cancel"}
        /\ FetchedOnChoiceOnly ]_vars

\* C15, amended: main.py offers Video, Audio and Cancel and has created the
\* session even when showing the prompt failed; instagram_bot.py offers
\* Video and Audio only.
C15_ChoiceBeforeFetchPerProgram ==
    [][ /\ ChoicePrompted
           => /\ StoredForSender
              /\ last'.buttons = (IF program = "main"
                                  THEN {"video", "audio", "cancel"}
                                  ELSE {"video", "audio"})
        /\ ( /\ program = "main"
             /\ last'.op = "text"
             /\ last'.kind \in {"reel", "post"} ) => StoredForSender
        /\ FetchedOnChoiceOnly ]_vars

C15_Witness ==
    /\ program = "instagram_bot"
    /\ last.op = "text"
    /\ last.kind = "reel"
    /\ last.response = "choice"
    /\ last.buttons = {"video", "audio"}
    /\ HasPending(user_data, last.user, "a")

\* C16: a profile message is fetched at once, without a prompt, and leaves
\* the pending choices as they were: none is created, replaced or cleared.
C16_ProfileSkipsChoice ==
    [][ (last'.op = "text" /\ last'.kind = "profile") =>
          /\ last'.fetches = 1
          /\ last'.response \in {"photo", "download_failed", "error"}
          /\ last'.buttons = {}
          /\ user_sessions' = user_sessions
          /\ user_data' = user_data
          /\ prompts' = prompts
          /\ keyboards' = keyboards ]_vars

C16_Witness ==
    /\ program = "main"
    /\ last.op = "text"
    /\ last.kind = "profile"
    /\ last.response = "photo"
    /\ HasSession(user_sessions, last.user)

\* a text message in which the classifier finds no Instagram link
NoLinkFound ==
    /\ last'.op = "text"
    /\ last'.kind = "none"
    /\ last'.gate # "denied"

\* C17: every text message in which no Instagram link is found gets the
\* invalid-link reply; none is dropped without a reply.
C17_NoLinkIsAnswered ==
    [][ NoLinkFound => last'.response \in {"invalid_link", "no_url"} ]_vars

\* C17, of main.py alone, whose handler receives every text message
C17_NoLinkIsAnsweredInMain ==
    [][ (program = "main" /\ NoLinkFound)
            => last'.response = "invalid_link" ]_vars

Reverse(text) == [i \in 1 .. Len(text) |-> text[Len(text) + 1 - i]]

KindsOf(text) == { text[i].kind : i \in 1 .. Len(text) }

\* the first kind of the order that occurs among the kinds K
ByPriority(K, order) ==
    LET I == { i \in 1 .. Len(order) : order[i] \in K }
    IN  IF I = {} THEN "none" ELSE order[Min(I)]

FreshReelPrompted ==
    /\ last'.op = "text"
    /\ last'.kind = "reel"
    /\ last'.response = "choice"
    /\ IF program = "main"
       THEN ~HasSession(user_sessions, last'.user)
       ELSE /\ admitted[last'.user] = <<>>
            /\ ~\E e \in user_data : e.user = last'.user

\* a Video press of the owner within the TTL, for a reel, that ended with
\* the video delivered
ReelVideoDelivered ==
    /\ ChoiceAccepted
    /\ last'.action = "video"
    /\ last'.fetched.kind = "reel"
    /\ last'.response = "video"

\* one fetch, the file deleted and the pending choice cleared
CleanedUp ==
    /\ last'.fetches = 1
    /\ ~\E f \in files' : f.stamp = now
    /\ IF program = "main"
       THEN ~HasSession(user_sessions', last'.user)
       ELSE ~HasPending(user_data', last'.user, last'.key)

\* C19: the happy path: a reel link of a fresh user is admitted by the rate
\* limiter, classified, gets its session and the Video/Audio/Cancel prompt;
\* the Video press of the same user within the TTL then makes one fetch and
\* one delivery and leaves the file deleted and the session cleared.
C19_HappyPath ==
    [][ /\ FreshReelPrompted
           => /\ last'.gate = "admitted"
              /\ StoredForSender
              /\ last'.buttons = {"video", "audio", "cancel"}
        /\ ReelVideoDelivered => CleanedUp ]_vars

\* C19, amended: main.py consults no rate limiter and offers Video, Audio
\* and Cancel; instagram_bot.py admits the message through its rate limiter
\* and offers Video and Audio.
C19_HappyPathPerProgram ==
    [][ /\ FreshReelPrompted
           => /\ last'.gate = (IF program = "main" THEN "none" ELSE "admitted")
              /\ StoredForSender
              /\ last'.fetches = 0
              /\ last'.buttons = (IF program = "main"
                                  THEN {"video", "audio", "cancel"}
                                  ELSE {"video", "audio"})
        /\ ReelVideoDelivered => CleanedUp ]_vars

C19_Witness ==
    /\ program = "main"
    /\ last.op = "callback"
    /\ last.user = last.owner
    /\ last.action = "video"
    /\ last.fetched = Tok("reel", "a")
    /\ last.response = "video"
    /\ last.fetches = 1
    /\ files = {}
    /\ ~HasSession(user_sessions, last.user)

\* C20: every caption handed to the transport with a photo, a video or an
\* audio is at most 1024 characters long, whatever the lengths of the
\* uploader, the title and the description.
C20_CaptionWithinLimit ==
    last.op \in {"reply_photo", "reply_video", "reply_audio"}
        => last.caption <= CAPTION_LIMIT

\* C20, of the video and audio captions alone, which are sliced
C20_MediaCaptionWithinLimit ==
    last.op \in {"reply_video", "reply_audio"}
        => last.caption <= CAPTION_LIMIT

\* a download during which the fetcher or the transport raised
Faulted ==
    /\ program = "main"
    /\ last'.op \in {"text", "callback"}
    /\ last'.fault # "none"

DeleteFailed ==
    /\ last'.op \in {"text", "callback"}
    /\ \E f \in files' \ files : f.locked
    /\ ~( /\ program = "instagram_bot"
          /\ last'.op = "text"
          /\ instagram_client = "none" )

\* C24: a failed deletion of the downloaded file raises nothing, leaves the
\* response what the delivery made it (the file sent, or the error text when
\* the transport raised), and the callback's session is cleared all the same.
C24_DeleteFailureOnlyLogged ==
    [][ DeleteFailed =>
          /\ ~last'.raised
          /\ last'.response =
                IF last'.fault = "transport" THEN "error"
                ELSE IF last'.op = "text" THEN "photo" ELSE last'.action
          /\ last'.op = "callback" =>
                IF program = "main"
                THEN ~HasSession(user_sessions', last'.user)
                ELSE ~HasPending(user_data', last'.user, last'.key) ]_vars

C24_Witness ==
    /\ program = "main"
    /\ last.op = "callback"
    /\ last.response = last.action
    /\ \E f \in files : f.locked /\ f.stamp = now
    /\ ~last.raised
    /\ ~HasSession(user_sessions, last.user)

\* a callback of main.py that was answered with the session-expired text
FoundExpired ==
    /\ program = "main"
    /\ last'.op = "callback"
    /\ last'.response = "session_expired"

\* C25: after the session-expired response the store holds no session for
\* the acting user.
C25_ExpiredRecordDestroyed ==
    [][FoundExpired => ~HasSession(user_sessions', last'.user)]_vars

\* C25, amended: the expiry check only reads: the session-expired response
\* leaves the store as it was, the expired record included.
C25_ExpiredRecordKept ==
    [][FoundExpired => user_sessions' = user_sessions]_vars

C25_Witness ==
    /\ program = "main"
    /\ last.op = "callback"
    /\ last.action = "video"
    /\ last.response = "session_expired"
    /\ \E e \in user_sessions :
          /\ e.user = last.user
          /\ now - e.timestamp >= session_timeout

\* a text whose link was classified as something else than a profile, a
\* reel or a post
OtherKind ==
    /\ last'.op = "text"
    /\ last'.kind \notin {"none", "profile", "reel", "post"}

\* C29: a story link, or a link of any kind other than profile, reel and
\* post, is answered with the unsupported-content text and nothing else
\* happens: no session is created or changed, no keyboard is shown and the
\* fetcher is not invoked.
C29_UnsupportedIsTerminal ==
    [][ OtherKind =>
          /\ last'.response = "unsupported"
          /\ last'.fetches = 0
          /\ last'.buttons = {}
          /\ ~SessionsChanged
          /\ prompts' = prompts
          /\ keyboards' = keyboards
          /\ files' = files ]_vars

C29_Witness ==
    /\ last.op = "text"
    /\ last.kind = "story"
    /\ last.response = "unsupported"
    /\ last.fetches = 0
    /\ \/ HasSession(user_sessions, last.user)
       \/ \E e \in user_data : e.user = last.user

\* every record left holds entries of the last hour only, and at least one
SweptClean(R, t) ==
    \A v \in DOMAIN R :
        /\ R[v] # <<>>
        /\ \A i \in 1 .. Len(R[v]) : t - R[v][i] < ONE_HOUR

\* C27: the sweep runs only when more than five minutes have passed since
\* the previous one (or since the start), whoever calls; the time of the
\* sweep is then recorded, and after it every record left holds only entries
\* of the last hour and no user has an empty record.
C27_SweepOncePerInterval ==
    [][ /\ last_cleanup' # last_cleanup
          => last'.op = "is_rate_limited" /\ last'.swept
        /\ (last'.op = "is_rate_limited" /\ last'.swept)
          => /\ now - last_cleanup > FIVE_MINUTES
             /\ last_cleanup' = now
             /\ SweptClean(user_requests', now)
        /\ (last'.op = "is_rate_limited" /\ ~last'.swept)
          => now - last_cleanup <= FIVE_MINUTES ]_vars

C27_Witness ==
    /\ last.op = "is_rate_limited"
    /\ last.swept
    /\ last.had
    /\ DOMAIN user_requests = {last.user}
    /\ last_cleanup = now

\* user u has a record and all its entries are one hour old or older
Stale(u) ==
    /\ u \in DOMAIN user_requests
    /\ \A i \in 1 .. Len(user_requests[u]) :
          now - user_requests[u][i] >= ONE_HOUR

\* C28: a record whose entries have all passed one hour is eventually
\* removed, or renewed by its user, although no user is obliged to send
\* anything: time passing and the keep-alive loop suffice.
C28_StaleEventuallyRemoved ==
    \A u \in SweepUsers : Stale(u) ~> ~Stale(u)

\* C28, amended: the sweep runs inside is_rate_limited only.  A stale record
\* is changed or removed by no other step, the keep-alive loop included, and
\* a call of any user that sweeps removes the stale records of all others.
C28_SweepOnlyOnRequest ==
    [][ \A u \in SweepUsers : Stale(u) =>
          /\ last'.op # "is_rate_limited"
                => /\ u \in DOMAIN user_requests'
                   /\ user_requests'[u] = user_requests[u]
          /\ (last'.op = "is_rate_limited" /\ last'.swept /\ last'.user # u)
                => u \notin DOMAIN user_requests' ]_vars

C28_Witness ==
    /\ last.op = "keep_alive_ping"
    /\ \E u \in SweepUsers : Stale(u)
    /\ now - last_cleanup > FIVE_MINUTES

\* user u has a session that is 300 s old or older
Expired(u) ==
    /\ HasSession(user_sessions, u)
    /\ now - SessionOf(user_sessions, u).timestamp >= session_timeout

\* C26: a session that has passed the timeout is eventually removed from
\* the store, or replaced by its user, although no user is obliged to press
\* or send anything: time passing and the keep-alive loop suffice.
C26_ExpiredEventuallyRemoved ==
    \A u \in Users : Expired(u) ~> ~Expired(u)

\* C26, amended: nothing removes an expired session.  It stays in the store
\* until a new reel or post link of the same user replaces it; neither the
\* keep-alive loop nor a callback touches it.
C26_ExpiredStaysUntilReplaced ==
    [][ \A u \in Users : Expired(u) =>
          /\ HasSession(user_sessions', u)
          /\ SessionOf(user_sessions', u) # SessionOf(user_sessions, u)
                => /\ last'.op = "text"
                   /\ last'.user = u
                   /\ last'.kind \in {"reel", "post"} ]_vars

C26_Witness ==
    /\ last.op = "keep_alive_task"
    /\ \E u \in Users : Expired(u)

\* a download that was running returns and the handler finishes
FlightFinishes == inflight # NoFlight /\ inflight' = NoFlight

C22_LaterCreateSurvives ==
    [][ /\ FlightFinishes =>
              \A e \in user_sessions :
                  e # inflight.session => e \in user_sessions'
        /\ (last'.op = "text" /\ last'.during /\ last'.response = "choice")
              => /\ is_session_valid(user_sessions', last'.user, now)
                 /\ SessionOf(user_sessions', last'.user).timestamp = now
        /\ (last'.op \in {"dispatch", "callback"}
               /\ last'.user = last'.owner
               /\ is_session_valid(user_sessions, last'.user, now))
              => last'.response # "session_expired" ]_vars

C22_Witness ==
    /\ last.op = "text"
    /\ last.during
    /\ last.response = "choice"
    /\ inflight = NoFlight
    /\ is_session_valid(user_sessions, last.user, now)
    /\ \E k \in links :
          /\ k.user = last.user
          /\ k.url # SessionOf(user_sessions, last.user).url

\* C30: an accepted Video or Audio press fetches the URL that the acting
\* user's session holds when the press is handled, whichever keyboard
\* carried the button: the keyboard of an earlier link fetches the newer
\* link.
C30_FetchesSessionUrlAtHandling ==
    [][ (inflight = NoFlight /\ inflight' # NoFlight) =>
          /\ is_session_valid(user_sessions, inflight'.user, now)
          /\ inflight'.url = SessionOf(user_sessions, inflight'.user).url
          /\ inflight'.session = SessionOf(user_sessions, inflight'.user)
          /\ inflight'.user = last'.user ]_vars

C30_Witness ==
    /\ last.op = "dispatch"
    /\ inflight # NoFlight
    /\ last.shown # inflight.url
    /\ HasSession(user_sessions, last.user)
    /\ SessionOf(user_sessions, last.user).url = inflight.url

====
